---- MODULE Spec2Model ----
(***************************************************************************)
(* problem_5: the Author / Product CRUD REST API.                          *)
(*                                                                         *)
(* State: the backing store (two tables and their autoincrement            *)
(* sequences), the store's clock, and the request in hand together with    *)
(* its response.  One action per route handler.  A handler is one atomic   *)
(* step: it validates the body, makes its single store call and formats    *)
(* the response.  Once the response has left, the request is forgotten.    *)
(*                                                                         *)
(* inflight holds the calls that were issued and whose store operation has *)
(* not run yet, for the specifications in which requests overlap.          *)
(*                                                                         *)
(* The three sum_to_n functions.  frame holds an argument n and the value  *)
(* each function returned for it, once it was called.                      *)
(***************************************************************************)
EXTENDS Integers, Sequences, FiniteSets, TLC

VARIABLES db, now, last, inflight, frame

vars == <<db, now, last, inflight, frame>>

(***************************************************************************)
(* Bounds of the model.                                                    *)
(***************************************************************************)
MaxAuthorID == 2
MaxProductID == 2
MaxTime == 1

\* The arguments of the sum functions: -MaxNegN..MaxN.
MaxNegN == 10
MaxN == 20

(***************************************************************************)
(* JavaScript values, as they occur in request bodies and as arguments of  *)
(* the gateway.  One record shape for all of them: t is the typeof tag     *)
(* ("date" for a Date object), s the string payload, n the numeric one.    *)
(***************************************************************************)
Undefined == [t |-> "undefined", s |-> "", n |-> 0]
Null == [t |-> "null", s |-> "", n |-> 0]
Str(x) == [t |-> "string", s |-> x, n |-> 0]
Num(k) == [t |-> "number", s |-> "", n |-> k]
NaN == [t |-> "number", s |-> "NaN", n |-> 0]
Bool(b) == [t |-> "boolean", s |-> "", n |-> IF b THEN 1 ELSE 0]
DateOf(d) == [t |-> "date", s |-> "", n |-> d]
InvalidDate == [t |-> "date", s |-> "Invalid Date", n |-> 0]

IsInteger(v) == v.t = "number" /\ v.s = ""
IsValidDate(v) == v.t = "date" /\ v.s = ""

\* Decimal numerals of the IDs the model uses.
Digits == <<"1", "2", "3", "4">>

\* Calendar dates the model uses, as ISO strings; the day number of
\* DateStrings[k] is k.
DateStrings == <<"2024-01-01", "2024-01-02">>

\* parseInt(s, 10) on a path parameter.
ParseInt(s) ==
  IF \E k \in 1..Len(Digits) : Digits[k] = s
  THEN Num(CHOOSE k \in 1..Len(Digits) : Digits[k] = s)
  ELSE NaN

\* new Date(v)
NewDate(v) ==
  CASE v.t = "date" -> v
    [] v.t = "string" ->
         IF \E k \in 1..Len(DateStrings) : DateStrings[k] = v.s
         THEN DateOf(CHOOSE k \in 1..Len(DateStrings) : DateStrings[k] = v.s)
         ELSE InvalidDate
    [] v.t = "number" -> IF v.s = "" THEN DateOf(v.n) ELSE InvalidDate
    [] v.t = "boolean" -> DateOf(v.n)
    [] v.t = "null" -> DateOf(0)
    [] OTHER -> InvalidDate

(***************************************************************************)
(* The backing store: db.author and db.product are the tables (sets of     *)
(* rows), db.authorSeq and db.productSeq the last ID each autoincrement    *)
(* sequence handed out.  A store operation returns                         *)
(* [err, rows, db, calls]: the error it raised ("" for none), the rows it  *)
(* returns, the store after the call, and the number of store operations   *)
(* performed (one).                                                        *)
(***************************************************************************)
NoError == ""
NotFoundError == "NotFoundError"
ReferentialIntegrityError == "ReferentialIntegrityError"
ValidationError == "ValidationError"

Ok(rows, d) == [err |-> NoError, rows |-> rows, db |-> d, calls |-> 1]
Fail(e, d) == [err |-> e, rows |-> <<>>, db |-> d, calls |-> 1]

HasRow(table, id) == \E r \in table : r.ID = id
RowOf(table, id) == CHOOSE r \in table : r.ID = id

\* The rows of a table as a sequence in the store's default order (by ID).
RECURSIVE RowsFrom(_, _, _)
RowsFrom(table, id, maxID) ==
  IF id > maxID THEN <<>>
  ELSE (IF HasRow(table, id) THEN <<RowOf(table, id)>> ELSE <<>>)
         \o RowsFrom(table, id + 1, maxID)

\* A field of update data is applied when it is given (not undefined).
Given(v) == v.t # "undefined"

\* select { ID, firstName, lastName, createdAt, updatedAt }
AuthorSelect(r) ==
  [ID |-> r.ID, firstName |-> r.firstName, lastName |-> r.lastName,
   createdAt |-> r.createdAt, updatedAt |-> r.updatedAt]

dbAuthorFindMany(d) ==
  Ok(RowsFrom({AuthorSelect(r) : r \in d.author}, 1, d.authorSeq), d)

dbAuthorFindUnique(d, ID) ==
  IF ~IsInteger(ID) THEN Fail(ValidationError, d)
  ELSE IF HasRow(d.author, ID.n)
       THEN Ok(<<AuthorSelect(RowOf(d.author, ID.n))>>, d)
       ELSE Ok(<<>>, d)

\* dbAuthorCreate that numbers a new row by the count of rows, not by the
\* sequence.
dbAuthorCreate_CountsRows(d, data, t) ==
  IF data.firstName.t # "string" \/ data.lastName.t # "string"
  THEN Fail(ValidationError, d)
  ELSE LET row == [ID |-> Cardinality(d.author) + 1,
                   firstName |-> data.firstName.s,
                   lastName |-> data.lastName.s,
                   createdAt |-> t, updatedAt |-> t]
       IN Ok(<<AuthorSelect(row)>>,
             [d EXCEPT !.author = @ \cup {row},
                       !.authorSeq = IF row.ID > @ THEN row.ID ELSE @])

dbAuthorCreate(d, data, t) ==
  IF data.firstName.t # "string" \/ data.lastName.t # "string"
  THEN Fail(ValidationError, d)
  ELSE LET row == [ID |-> d.authorSeq + 1,
                   firstName |-> data.firstName.s,
                   lastName |-> data.lastName.s,
                   createdAt |-> t, updatedAt |-> t]
       IN Ok(<<AuthorSelect(row)>>,
             [d EXCEPT !.author = @ \cup {row}, !.authorSeq = @ + 1])

dbAuthorUpdate(d, ID, data, t) ==
  IF \/ ~IsInteger(ID)
     \/ data.firstName.t \notin {"string", "undefined"}
     \/ data.lastName.t \notin {"string", "undefined"}
  THEN Fail(ValidationError, d)
  ELSE IF ~HasRow(d.author, ID.n) THEN Fail(NotFoundError, d)
  ELSE LET old == RowOf(d.author, ID.n)
           row == [old EXCEPT
                     !.firstName = IF Given(data.firstName)
                                   THEN data.firstName.s ELSE @,
                     !.lastName = IF Given(data.lastName)
                                  THEN data.lastName.s ELSE @,
                     !.updatedAt = t]
       IN Ok(<<AuthorSelect(row)>>,
             [d EXCEPT !.author = (@ \ {old}) \cup {row}])

\* dbAuthorDelete without the foreign-key restriction: the Author goes and
\* the Products that reference it stay.
dbAuthorDelete_NoRestrict(d, ID) ==
  IF ~IsInteger(ID) THEN Fail(ValidationError, d)
  ELSE IF ~HasRow(d.author, ID.n) THEN Fail(NotFoundError, d)
  ELSE Ok(<<RowOf(d.author, ID.n)>>,
          [d EXCEPT !.author = @ \ {RowOf(d.author, ID.n)}])

dbAuthorDelete(d, ID) ==
  IF ~IsInteger(ID) THEN Fail(ValidationError, d)
  ELSE IF ~HasRow(d.author, ID.n) THEN Fail(NotFoundError, d)
  ELSE IF \E p \in d.product : p.authorID = ID.n
       THEN Fail(ReferentialIntegrityError, d)
  ELSE Ok(<<RowOf(d.author, ID.n)>>,
          [d EXCEPT !.author = @ \ {RowOf(d.author, ID.n)}])

\* ProductSelect without the selection: the raw row, authorID and all.
ProductSelect_RawRow(d, r) == r

\* select: this.selectFields, the product's own columns and the nested
\* author.
ProductSelect(d, r) ==
  [ID |-> r.ID, title |-> r.title, isFiction |-> r.isFiction,
   datePublish |-> r.datePublish,
   author |-> AuthorSelect(RowOf(d.author, r.authorID)),
   createdAt |-> r.createdAt, updatedAt |-> r.updatedAt]

dbProductFindMany(d) ==
  Ok(RowsFrom({ProductSelect(d, r) : r \in d.product}, 1, d.productSeq), d)

dbProductFindUnique(d, ID) ==
  IF ~IsInteger(ID) THEN Fail(ValidationError, d)
  ELSE IF HasRow(d.product, ID.n)
       THEN Ok(<<ProductSelect(d, RowOf(d.product, ID.n))>>, d)
       ELSE Ok(<<>>, d)

dbProductCreate(d, data, t) ==
  IF \/ data.title.t # "string"
     \/ data.isFiction.t # "boolean"
     \/ ~IsValidDate(data.datePublish)
     \/ ~IsInteger(data.authorID)
  THEN Fail(ValidationError, d)
  ELSE IF ~HasRow(d.author, data.authorID.n)
       THEN Fail(ReferentialIntegrityError, d)
  ELSE LET row == [ID |-> d.productSeq + 1,
                   title |-> data.title.s,
                   isFiction |-> (data.isFiction.n = 1),
                   datePublish |-> data.datePublish.n,
                   authorID |-> data.authorID.n,
                   createdAt |-> t, updatedAt |-> t]
           after == [d EXCEPT !.product = @ \cup {row}, !.productSeq = @ + 1]
       IN Ok(<<ProductSelect(after, row)>>, after)

dbProductUpdate(d, ID, data, t) ==
  IF \/ ~IsInteger(ID)
     \/ data.title.t \notin {"string", "undefined"}
     \/ data.isFiction.t \notin {"boolean", "undefined"}
     \/ (Given(data.datePublish) /\ ~IsValidDate(data.datePublish))
     \/ (Given(data.authorID) /\ ~IsInteger(data.authorID))
  THEN Fail(ValidationError, d)
  ELSE IF ~HasRow(d.product, ID.n) THEN Fail(NotFoundError, d)
  ELSE IF Given(data.authorID) /\ ~HasRow(d.author, data.authorID.n)
       THEN Fail(ReferentialIntegrityError, d)
  ELSE LET old == RowOf(d.product, ID.n)
           row == [old EXCEPT
                     !.title = IF Given(data.title) THEN data.title.s ELSE @,
                     !.isFiction = IF Given(data.isFiction)
                                   THEN data.isFiction.n = 1 ELSE @,
                     !.datePublish = IF Given(data.datePublish)
                                     THEN data.datePublish.n ELSE @,
                     !.authorID = IF Given(data.authorID)
                                  THEN data.authorID.n ELSE @,
                     !.updatedAt = t]
           after == [d EXCEPT !.product = (@ \ {old}) \cup {row}]
       IN Ok(<<ProductSelect(after, row)>>, after)

dbProductDelete(d, ID) ==
  IF ~IsInteger(ID) THEN Fail(ValidationError, d)
  ELSE IF ~HasRow(d.product, ID.n) THEN Fail(NotFoundError, d)
  ELSE Ok(<<RowOf(d.product, ID.n)>>,
          [d EXCEPT !.product = @ \ {RowOf(d.product, ID.n)}])

(***************************************************************************)
(* The Author service functions.                                           *)
(***************************************************************************)
\* getAuthors that throws when the store holds no Author.
getAuthors_ThrowsOnEmpty(d) ==
  IF d.author = {} THEN Fail(NotFoundError, d) ELSE dbAuthorFindMany(d)

getAuthors(d) == dbAuthorFindMany(d)

\* getAuthorById without the where clause (findFirst): the first Author.
getAuthorById_FindFirst(d, ID) ==
  LET all == dbAuthorFindMany(d)
  IN IF all.rows = <<>> THEN all ELSE [all EXCEPT !.rows = <<all.rows[1]>>]

getAuthorById(d, ID) == dbAuthorFindUnique(d, ID)

createAuthor(d, author, t) ==
  dbAuthorCreate(d, [firstName |-> author.firstName,
                     lastName |-> author.lastName], t)

\* updateAuthorById that replaces the record: delete, then create.
updateAuthorById_Recreates(d, ID, author, t) ==
  LET gone == dbAuthorDelete(d, ID)
  IN IF gone.err # NoError THEN [gone EXCEPT !.rows = <<>>]
     ELSE [dbAuthorCreate(gone.db, [firstName |-> author.firstName,
                                    lastName |-> author.lastName], t)
             EXCEPT !.calls = 2]

\* updateAuthorById that writes '' for a name the body does not give.
updateAuthorById_DefaultsNames(d, ID, author, t) ==
  dbAuthorUpdate(d, ID,
    [firstName |-> IF author.firstName = Undefined
                   THEN Str("") ELSE author.firstName,
     lastName |-> IF author.lastName = Undefined
                  THEN Str("") ELSE author.lastName], t)

updateAuthorById(d, ID, author, t) ==
  dbAuthorUpdate(d, ID, [firstName |-> author.firstName,
                         lastName |-> author.lastName], t)

\* deleteAuthorById that first deletes the Author's Products (a cascade).
deleteAuthorById_Cascade(d, ID) ==
  LET r == dbAuthorDelete([d EXCEPT !.product =
                             {p \in @ : p.authorID # ID.n}], ID)
  IN [r EXCEPT !.rows = <<>>]

\* deleteAuthorById that refuses while any Product is stored, whoever its
\* author is.
deleteAuthorById_RefusesAnyProduct(d, ID) ==
  IF d.product # {} THEN Fail(ReferentialIntegrityError, d)
  ELSE LET r == dbAuthorDelete(d, ID) IN [r EXCEPT !.rows = <<>>]

\* deleteAuthorById that tries the delete once more when it failed.
deleteAuthorById_Retries(d, ID) ==
  LET r == dbAuthorDelete(d, ID)
  IN IF r.err = NoError THEN [r EXCEPT !.rows = <<>>]
     ELSE [dbAuthorDelete(r.db, ID) EXCEPT !.rows = <<>>, !.calls = 2]

\* Promise<void>: the deleted row the store returns is dropped.
deleteAuthorById(d, ID) ==
  LET r == dbAuthorDelete(d, ID) IN [r EXCEPT !.rows = <<>>]

(***************************************************************************)
(* ProductQueryBuilder.                                                    *)
(***************************************************************************)
findAll(d) == dbProductFindMany(d)

findById(d, ID) == dbProductFindUnique(d, ID)

\* create that hands data.datePublish to the store as it came.
create_KeepsDateString(d, data, t) ==
  dbProductCreate(d, [title |-> data.title,
                      isFiction |-> data.isFiction,
                      datePublish |-> data.datePublish,
                      authorID |-> data.authorID], t)

create(d, data, t) ==
  LET parseDate == NewDate(data.datePublish)
  IN dbProductCreate(d, [title |-> data.title,
                         isFiction |-> data.isFiction,
                         datePublish |-> parseDate,
                         authorID |-> data.authorID], t)

\* update that never forwards authorID.
update_DropsAuthorID(d, ID, data, t) ==
  dbProductUpdate(d, ID,
    [title |-> data.title,
     isFiction |-> data.isFiction,
     datePublish |-> IF data.datePublish # Undefined
                     THEN NewDate(data.datePublish) ELSE Undefined,
     authorID |-> Undefined], t)

\* update that always writes isFiction, as Boolean(data.isFiction).
update_CoercesIsFiction(d, ID, data, t) ==
  dbProductUpdate(d, ID,
    [title |-> data.title,
     isFiction |-> Bool(data.isFiction = Bool(TRUE)),
     datePublish |-> IF data.datePublish # Undefined
                     THEN NewDate(data.datePublish) ELSE Undefined,
     authorID |-> data.authorID], t)

\* updateData whose guards are != null: a null is not forwarded.
updateData_SkipsNull(data) ==
  [title |-> IF data.title \notin {Undefined, Null}
             THEN data.title ELSE Undefined,
   isFiction |-> IF data.isFiction \notin {Undefined, Null}
                 THEN data.isFiction ELSE Undefined,
   datePublish |-> IF data.datePublish \notin {Undefined, Null}
                   THEN NewDate(data.datePublish) ELSE Undefined,
   authorID |-> IF data.authorID \notin {Undefined, Null}
                THEN data.authorID ELSE Undefined]

\* updateData that always assigns isFiction, false when data gives none.
updateData_DefaultsIsFiction(data) ==
  [title |-> IF data.title # Undefined THEN data.title ELSE Undefined,
   isFiction |-> IF data.isFiction # Undefined
                 THEN data.isFiction ELSE Bool(FALSE),
   datePublish |-> IF data.datePublish # Undefined
                   THEN NewDate(data.datePublish) ELSE Undefined,
   authorID |-> IF data.authorID # Undefined
                THEN data.authorID ELSE Undefined]

\* const updateData: any = {} and the four guarded assignments; a key that
\* is not assigned is undefined.
updateData(data) ==
  [title |-> IF data.title # Undefined THEN data.title ELSE Undefined,
   isFiction |-> IF data.isFiction # Undefined
                 THEN data.isFiction ELSE Undefined,
   datePublish |-> IF data.datePublish # Undefined
                   THEN NewDate(data.datePublish) ELSE Undefined,
   authorID |-> IF data.authorID # Undefined
                THEN data.authorID ELSE Undefined]

update(d, ID, data, t) == dbProductUpdate(d, ID, updateData(data), t)

\* delete through deleteMany, which matches no row without an error.
delete_DeleteMany(d, ID) ==
  IF IsInteger(ID) /\ ~HasRow(d.product, ID.n) THEN Ok(<<>>, d)
  ELSE dbProductDelete(d, ID)

delete(d, ID) == dbProductDelete(d, ID)

(***************************************************************************)
(* The Product use cases: execute().                                       *)
(***************************************************************************)
\* execute() that returns the first Product only.
GetProductsUsecase_FirstOnly(d) ==
  LET r == findAll(d)
  IN IF r.rows = <<>> THEN r ELSE [r EXCEPT !.rows = <<r.rows[1]>>]

GetProductsUsecase(d) == findAll(d)

GetProductByIdUsecase(d, ID) == findById(d, ID)

CreateProductUsecase(d, data, t) == create(d, data, t)

\* execute() that catches the builder's error and throws one of its own.
UpdateProductByIdUsecase_WrapsError(d, ID, data, t) ==
  LET r == update(d, ID, data, t)
  IN IF r.err = NoError THEN r ELSE [r EXCEPT !.err = "Error"]

UpdateProductByIdUsecase(d, ID, data, t) == update(d, ID, data, t)

\* execute() that never calls the builder.
DeleteProductByIdUsecase_NoCall(d, ID) ==
  [err |-> NoError, rows |-> <<>>, db |-> d, calls |-> 0]

\* Promise<void>: awaits the builder and returns nothing.
DeleteProductByIdUsecase(d, ID) ==
  LET r == delete(d, ID) IN [r EXCEPT !.rows = <<>>]

(***************************************************************************)
(* express-validator: the validators the routes use, and a chain's         *)
(* optional().                                                             *)
(***************************************************************************)
isString(v) == v.t = "string"

\* validator.isBoolean on the value's string form
isBoolean(v) ==
  \/ v.t = "boolean"
  \/ v.t = "string" /\ v.s \in {"true", "false", "1", "0"}
  \/ v.t = "number" /\ v.s = "" /\ v.n \in {0, 1}

\* validator.isInt on the value's string form
isInt(v) ==
  \/ v.t = "number" /\ v.s = ""
  \/ v.t = "string" /\ \E k \in 1..Len(Digits) : Digits[k] = v.s

\* validator.isDate: a Date, or a string that is a calendar date
isDate(v) ==
  \/ v.t = "date" /\ v.s = ""
  \/ v.t = "string" /\ \E k \in 1..Len(DateStrings) : DateStrings[k] = v.s

\* .optional(): the chain is skipped when the field is undefined
optional(v, valid) == v = Undefined \/ valid

(***************************************************************************)
(* The route handlers.  A handler returns its outcome: the HTTP status,    *)
(* the kind of JSON body ("list", "record", "message", "errors") with the  *)
(* records it carries, the error its gateway call raised, whether the      *)
(* gateway was called at all, the number of store operations performed,    *)
(* the number of responses sent, and the store after the request.          *)
(***************************************************************************)
Outcome(status, kind, rows, r) ==
  [status |-> status, kind |-> kind, rows |-> rows,
   err |-> r.err, called |-> TRUE, calls |-> r.calls, sent |-> 1,
   db |-> r.db]

\* response.status(400).json({ errors: errors.array() }) before any call
Rejected(d) ==
  [status |-> 400, kind |-> "errors", rows |-> <<>>,
   err |-> NoError, called |-> FALSE, calls |-> 0, sent |-> 1, db |-> d]

\* validationResult(request): the fields whose chain failed
AuthorErrors(body) ==
  {f \in {"firstName", "lastName"} : ~isString(body[f])}

ProductPostErrors(body) ==
  (IF isString(body.title) THEN {} ELSE {"title"})
    \cup (IF isBoolean(body.isFiction) THEN {} ELSE {"isFiction"})
    \cup (IF isDate(body.datePublish) THEN {} ELSE {"datePublish"})
    \cup (IF isInt(body.authorID) THEN {} ELSE {"authorID"})

ProductPutErrors(body) ==
  (IF optional(body.title, isString(body.title)) THEN {} ELSE {"title"})
    \cup (IF optional(body.isFiction, isBoolean(body.isFiction))
          THEN {} ELSE {"isFiction"})
    \cup (IF optional(body.datePublish, isDate(body.datePublish))
          THEN {} ELSE {"datePublish"})
    \cup (IF optional(body.authorID, isInt(body.authorID))
          THEN {} ELSE {"authorID"})

\* errors.isEmpty()
isEmpty(errors) == errors = {}

AuthorRouterGet(d) ==
  LET r == getAuthors(d)
  IN IF r.err = NoError THEN Outcome(200, "list", r.rows, r)
     ELSE Outcome(500, "message", <<>>, r)

\* GET /:id without the test of the result: null is answered with 200.
AuthorRouterGetId_NoNullCheck(d, id) ==
  LET ID == ParseInt(id)
      r == getAuthorById(d, ID)
  IN IF r.err # NoError THEN Outcome(500, "message", <<>>, r)
     ELSE Outcome(200, "record", r.rows, r)

AuthorRouterGetId(d, id) ==
  LET ID == ParseInt(id)
      r == getAuthorById(d, ID)
  IN IF r.err # NoError THEN Outcome(500, "message", <<>>, r)
     ELSE IF r.rows # <<>> THEN Outcome(200, "record", r.rows, r)
     ELSE Outcome(404, "message", <<>>, r)

\* POST / that answers 204 with no body.
AuthorRouterPost_Answers204(d, body, t) ==
  LET errors == AuthorErrors(body)
      r == createAuthor(d, body, t)
  IN IF ~isEmpty(errors) THEN Rejected(d)
     ELSE IF r.err = NoError THEN Outcome(204, "empty", <<>>, r)
     ELSE Outcome(500, "message", <<>>, r)

AuthorRouterPost(d, body, t) ==
  LET errors == AuthorErrors(body)
      r == createAuthor(d, body, t)
  IN IF ~isEmpty(errors) THEN Rejected(d)
     ELSE IF r.err = NoError THEN Outcome(201, "record", r.rows, r)
     ELSE Outcome(500, "message", <<>>, r)

\* The guard reads !errors.isEmpty, the method and not its result: a
\* function is truthy, so the guard is false whatever errors holds.
AuthorRouterPut(d, id, body, t) ==
  LET errors == AuthorErrors(body)
      isEmptyIsTruthy == TRUE
      ID == ParseInt(id)
      r == updateAuthorById(d, ID, body, t)
  IN IF ~isEmptyIsTruthy THEN Rejected(d)
     ELSE IF r.err = NoError THEN Outcome(201, "record", r.rows, r)
     ELSE Outcome(500, "message", <<>>, r)

AuthorRouterDelete(d, id) ==
  LET ID == ParseInt(id)
      r == deleteAuthorById(d, ID)
  IN IF r.err = NoError THEN Outcome(200, "message", <<>>, r)
     ELSE Outcome(500, "message", <<>>, r)

ProductRouterGet(d) ==
  LET r == GetProductsUsecase(d)
  IN IF r.err = NoError THEN Outcome(200, "list", r.rows, r)
     ELSE Outcome(500, "message", <<>>, r)

ProductRouterGetId(d, id) ==
  LET ID == ParseInt(id)
      r == GetProductByIdUsecase(d, ID)
  IN IF r.err # NoError THEN Outcome(500, "message", <<>>, r)
     ELSE IF r.rows # <<>> THEN Outcome(200, "record", r.rows, r)
     ELSE Outcome(404, "message", <<>>, r)

\* POST / whose 400 branch does not return: the handler goes on to the try
\* block and answers a second time.
ProductRouterPost_NoReturnOn400(d, body, t) ==
  LET errors == ProductPostErrors(body)
      r == CreateProductUsecase(d, body, t)
      o == IF r.err = NoError THEN Outcome(201, "record", r.rows, r)
           ELSE Outcome(500, "message", <<>>, r)
  IN IF ~isEmpty(errors) THEN [o EXCEPT !.status = 400, !.sent = 2]
     ELSE o

ProductRouterPost(d, body, t) ==
  LET errors == ProductPostErrors(body)
      r == CreateProductUsecase(d, body, t)
  IN IF ~isEmpty(errors) THEN Rejected(d)
     ELSE IF r.err = NoError THEN Outcome(201, "record", r.rows, r)
     ELSE Outcome(500, "message", <<>>, r)

\* PUT /:id that runs the use case first and tests errors afterwards.
ProductRouterPut_ValidatesAfterCall(d, id, body, t) ==
  LET errors == ProductPutErrors(body)
      ID == ParseInt(id)
      r == UpdateProductByIdUsecase(d, ID, body, t)
  IN IF ~isEmpty(errors)
     THEN [Rejected(r.db) EXCEPT !.called = TRUE, !.calls = r.calls,
                                 !.err = r.err]
     ELSE IF r.err = NoError THEN Outcome(201, "record", r.rows, r)
     ELSE Outcome(500, "message", <<>>, r)

ProductRouterPut(d, id, body, t) ==
  LET errors == ProductPutErrors(body)
      ID == ParseInt(id)
      r == UpdateProductByIdUsecase(d, ID, body, t)
  IN IF ~isEmpty(errors) THEN Rejected(d)
     ELSE IF r.err = NoError THEN Outcome(201, "record", r.rows, r)
     ELSE Outcome(500, "message", <<>>, r)

ProductRouterDelete(d, id) ==
  LET ID == ParseInt(id)
      r == DeleteProductByIdUsecase(d, ID)
  IN IF r.err = NoError THEN Outcome(200, "message", <<>>, r)
     ELSE Outcome(500, "message", <<>>, r)

(***************************************************************************)
(* Requests.                                                               *)
(***************************************************************************)
MaxID == IF MaxAuthorID > MaxProductID THEN MaxAuthorID ELSE MaxProductID

\* request.params.id: the numerals of the IDs in use, and a word
PathParams == {Digits[k] : k \in 1..MaxID} \cup {"abc"}

\* A request body: the fields it gives, the others undefined.
AuthorBody(firstName, lastName) ==
  [firstName |-> firstName, lastName |-> lastName]

ProductBody(title, isFiction, datePublish, authorID) ==
  [title |-> title, isFiction |-> isFiction, datePublish |-> datePublish,
   authorID |-> authorID]

\* A full body that also carries an ID key.
AuthorBodyWithID(ID) ==
  [ID |-> ID, firstName |-> Str("Jane"), lastName |-> Str("Doe")]

ProductBodyWithID(ID) ==
  [ID |-> ID, title |-> Str("Book"), isFiction |-> Bool(TRUE),
   datePublish |-> Str(DateStrings[1]), authorID |-> Num(1)]

\* request.body of the Author routes: two full bodies, a partial one, the
\* empty one, one of the wrong type and one that carries an ID
AuthorBodies ==
  {AuthorBodyWithID(Num(1)),
   AuthorBody(Str("Jane"), Str("Doe")),
   AuthorBody(Str("John"), Str("Roe")),
   AuthorBody(Str("John"), Undefined),
   AuthorBody(Undefined, Undefined),
   AuthorBody(Num(7), Str("Doe"))}

\* request.body of the Product routes: a full body for each author, partial
\* ones (the authorID alone, the three other fields), the empty one, two
\* whose authorID or title has the wrong type, and one that carries an ID
ProductBodies ==
  {ProductBodyWithID(Num(1))} \cup
  {ProductBody(Str("Book"), Bool(TRUE), Str(DateStrings[1]), Num(k)) :
     k \in 1..MaxAuthorID}
  \cup {ProductBody(Undefined, Undefined, Undefined, Num(k)) :
          k \in 1..MaxAuthorID}
  \cup {ProductBody(Str("Novel"), Bool(FALSE), Str(DateStrings[2]), Undefined),
        ProductBody(Undefined, Undefined, Undefined, Undefined),
        ProductBody(Str("Book"), Bool(TRUE), Str(DateStrings[1]), Str("1")),
        ProductBody(Num(7), Undefined, Undefined, Undefined)}

NoBody == [none |-> Undefined]

\* The store without a record, no ID handed out yet.
EmptyStore ==
  [author |-> {}, product |-> {}, authorSeq |-> 0, productSeq |-> 0]

\* No request in hand.
NoRequest ==
  [handler |-> "", id |-> "", body |-> NoBody, status |-> 0,
   kind |-> "", rows |-> <<>>, err |-> NoError, called |-> FALSE,
   calls |-> 0, sent |-> 0, before |-> EmptyStore]

\* No call issued and waiting for its store operation.
NoCalls == <<>>

\* The argument n, none of the sum functions called yet.
Frame(n) == [n |-> n, a |-> <<>>, b |-> <<>>, c |-> <<>>]

NoFrame == Frame(0)

Init ==
  /\ db = EmptyStore
  /\ now = 0
  /\ last = NoRequest
  /\ inflight = NoCalls
  /\ frame = NoFrame

\* The state after a handler has answered: the store it left and the record
\* of the request and its response.
Answered(handler, id, body, o) ==
  /\ last = NoRequest
  /\ o.db.authorSeq <= MaxAuthorID
  /\ o.db.productSeq <= MaxProductID
  /\ db' = o.db
  /\ last' = [handler |-> handler, id |-> id, body |-> body,
              status |-> o.status, kind |-> o.kind, rows |-> o.rows,
              err |-> o.err, called |-> o.called, calls |-> o.calls,
              sent |-> o.sent, before |-> db]
  /\ UNCHANGED <<now, inflight, frame>>

ReqAuthorGet == Answered("GET /api/author", "", NoBody, AuthorRouterGet(db))

ReqAuthorGetId ==
  \E id \in PathParams :
    Answered("GET /api/author/:id", id, NoBody, AuthorRouterGetId(db, id))

ReqAuthorPost ==
  \E body \in AuthorBodies :
    Answered("POST /api/author", "", body, AuthorRouterPost(db, body, now))

ReqAuthorPut ==
  \E id \in PathParams, body \in AuthorBodies :
    Answered("PUT /api/author/:id", id, body,
             AuthorRouterPut(db, id, body, now))

ReqAuthorDelete ==
  \E id \in PathParams :
    Answered("DELETE /api/author/:id", id, NoBody,
             AuthorRouterDelete(db, id))

ReqProductGet == Answered("GET /api/product", "", NoBody, ProductRouterGet(db))

ReqProductGetId ==
  \E id \in PathParams :
    Answered("GET /api/product/:id", id, NoBody, ProductRouterGetId(db, id))

ReqProductPost ==
  \E body \in ProductBodies :
    Answered("POST /api/product", "", body,
             ProductRouterPost(db, body, now))

ReqProductPut ==
  \E id \in PathParams, body \in ProductBodies :
    Answered("PUT /api/product/:id", id, body,
             ProductRouterPut(db, id, body, now))

ReqProductDelete ==
  \E id \in PathParams :
    Answered("DELETE /api/product/:id", id, NoBody,
             ProductRouterDelete(db, id))

\* The response has been sent and the handler has returned.
Finish ==
  /\ last # NoRequest
  /\ last' = NoRequest
  /\ UNCHANGED <<db, now, inflight, frame>>

\* The store's clock advances between requests.
Tick ==
  /\ last = NoRequest
  /\ now < MaxTime
  /\ now' = now + 1
  /\ UNCHANGED <<db, last, inflight, frame>>

Next ==
  \/ ReqAuthorGet
  \/ ReqAuthorGetId
  \/ ReqAuthorPost
  \/ ReqAuthorPut
  \/ ReqAuthorDelete
  \/ ReqProductGet
  \/ ReqProductGetId
  \/ ReqProductPost
  \/ ReqProductPut
  \/ ReqProductDelete
  \/ Finish
  \/ Tick

Spec == Init /\ [][Next]_vars

(***************************************************************************)
(* A request in two steps: it is received, and later its handler runs to   *)
(* its response.  inflight holds the request from its receipt until the    *)
(* handler has returned, with the number of responses sent for it.         *)
(***************************************************************************)
\* request.body of the Author routes: a valid one and an empty one.
LiveAuthorBodies ==
  {AuthorBody(Str("Jane"), Str("Doe")), AuthorBody(Undefined, Undefined)}

\* request.body of the Product routes: a valid one for each of two
\* authorIDs, an empty one and one whose title has the wrong type.
LiveProductBodies ==
  {ProductBody(Str("Book"), Bool(TRUE), Str(DateStrings[1]), Num(k)) :
     k \in 1..2}
  \cup {ProductBody(Undefined, Undefined, Undefined, Undefined),
        ProductBody(Num(7), Undefined, Undefined, Undefined)}

Request(handler, id, body) ==
  [handler |-> handler, id |-> id, body |-> body, sent |-> 0]

\* The requests a client may send.
LiveRequests ==
  {Request(h, "", NoBody) : h \in {"GET /api/author", "GET /api/product"}}
  \cup {Request(h, id, NoBody) :
          h \in {"GET /api/author/:id", "DELETE /api/author/:id",
                 "GET /api/product/:id", "DELETE /api/product/:id"},
          id \in PathParams}
  \cup {Request("POST /api/author", "", body) : body \in LiveAuthorBodies}
  \cup {Request("PUT /api/author/:id", id, body) :
          id \in PathParams, body \in LiveAuthorBodies}
  \cup {Request("POST /api/product", "", body) : body \in LiveProductBodies}
  \cup {Request("PUT /api/product/:id", id, body) :
          id \in PathParams, body \in LiveProductBodies}

\* The router: the handler of the request's route, run on store d at time t.
Handle(d, req, t) ==
  CASE req.handler = "GET /api/author" -> AuthorRouterGet(d)
    [] req.handler = "GET /api/author/:id" -> AuthorRouterGetId(d, req.id)
    [] req.handler = "POST /api/author" -> AuthorRouterPost(d, req.body, t)
    [] req.handler = "PUT /api/author/:id" ->
         AuthorRouterPut(d, req.id, req.body, t)
    [] req.handler = "DELETE /api/author/:id" ->
         AuthorRouterDelete(d, req.id)
    [] req.handler = "GET /api/product" -> ProductRouterGet(d)
    [] req.handler = "GET /api/product/:id" -> ProductRouterGetId(d, req.id)
    [] req.handler = "POST /api/product" -> ProductRouterPost(d, req.body, t)
    [] req.handler = "PUT /api/product/:id" ->
         ProductRouterPut(d, req.id, req.body, t)
    [] req.handler = "DELETE /api/product/:id" ->
         ProductRouterDelete(d, req.id)

LiveInit ==
  /\ db = EmptyStore
  /\ now = 0
  /\ last = NoRequest
  /\ inflight = NoCalls
  /\ frame = NoFrame

\* A request arrives; its handler has not run yet.
Receive ==
  /\ inflight = NoCalls
  /\ \E req \in LiveRequests :
       /\ Handle(db, req, now).db.authorSeq <= MaxAuthorID
       /\ Handle(db, req, now).db.productSeq <= MaxProductID
       /\ inflight' = <<req>>
  /\ UNCHANGED <<db, now, last, frame>>

\* The handler of the request runs: its store call completes or fails and
\* it sends its response.
Respond ==
  /\ inflight # NoCalls
  /\ inflight[1].sent = 0
  /\ LET req == inflight[1]
         o == Handle(db, req, now)
     IN /\ db' = o.db
        /\ last' = [handler |-> req.handler, id |-> req.id,
                    body |-> req.body, status |-> o.status,
                    kind |-> o.kind, rows |-> o.rows, err |-> o.err,
                    called |-> o.called, calls |-> o.calls,
                    sent |-> o.sent, before |-> db]
        /\ inflight' = <<[req EXCEPT !.sent = o.sent]>>
  /\ UNCHANGED <<now, frame>>

\* The handler has returned; the request is forgotten.
Done ==
  /\ inflight # NoCalls
  /\ inflight[1].sent > 0
  /\ inflight' = NoCalls
  /\ last' = NoRequest
  /\ UNCHANGED <<db, now, frame>>

LiveNext == Receive \/ Respond \/ Done

\* The event loop resumes a handler whose store call has completed or
\* failed.
LiveSpec == LiveInit /\ [][LiveNext]_vars /\ WF_vars(Respond)

(***************************************************************************)
(* Overlapping gateway calls: two callers have each called                 *)
(* ProductQueryBuilder.update for the same Product, and the store runs     *)
(* the two update operations one after the other, in either order.         *)
(***************************************************************************)
\* The store the calls find: two Authors, and a Product of the first.
SeedStore ==
  LET a1 == createAuthor(EmptyStore, AuthorBody(Str("Jane"), Str("Doe")), 0)
      a2 == createAuthor(a1.db, AuthorBody(Str("John"), Str("Roe")), 0)
      p1 == create(a2.db, ProductBody(Str("Book"), Bool(TRUE),
                                      Str(DateStrings[1]), Num(1)), 0)
  IN p1.db

\* data of update: each writable key absent, null or given, and one data
\* that carries the keys ID, createdAt and updatedAt besides a title.
UpdateDatas ==
  {ProductBody(title, isFiction, datePublish, authorID) :
     title \in {Undefined, Null, Str("Novel")},
     isFiction \in {Undefined, Bool(FALSE)},
     datePublish \in {Undefined, Null, Str(DateStrings[2])},
     authorID \in {Undefined, Num(2)}}
  \cup {[ID |-> Num(2), createdAt |-> DateOf(1), updatedAt |-> DateOf(0),
         title |-> Str("Novel"), isFiction |-> Undefined,
         datePublish |-> Undefined, authorID |-> Undefined]}

\* A call update(ID, data) whose store operation has not run.
UpdateCall(ID, data) ==
  [ID |-> ID, data |-> data, done |-> FALSE, err |-> NoError,
   rows |-> <<>>, before |-> EmptyStore, after |-> EmptyStore]

GatewayInit ==
  /\ db = SeedStore
  /\ now = MaxTime
  /\ last = NoRequest
  /\ inflight \in {<<UpdateCall(Num(1), d1), UpdateCall(Num(1), d2)>> :
                     d1 \in UpdateDatas, d2 \in UpdateDatas}
  /\ frame = NoFrame

\* The store runs the update of call i, and the call returns.
GatewayUpdate(i) ==
  /\ ~inflight[i].done
  /\ LET r == update(db, inflight[i].ID, inflight[i].data, now)
     IN /\ db' = r.db
        /\ inflight' = [inflight EXCEPT
                          ![i] = [@ EXCEPT !.done = TRUE, !.err = r.err,
                                           !.rows = r.rows, !.before = db,
                                           !.after = r.db]]
  /\ UNCHANGED <<now, last, frame>>

GatewayNext == \E i \in 1..2 : GatewayUpdate(i)

GatewaySpec == GatewayInit /\ [][GatewayNext]_vars

(***************************************************************************)
(* The sum functions.                                                      *)
(***************************************************************************)
RECURSIVE Loop(_, _, _)
\* for (let i = 1; i <= n; i++) { total += i }, from i and total on
Loop(i, n, total) == IF i <= n THEN Loop(i + 1, n, total + i) ELSE total

\* sum_to_n_a that returns the closed form.
sum_to_n_a_ClosedForm(n) == (n * (n + 1)) \div 2

sum_to_n_a(n) == Loop(1, n, 0)

RECURSIVE sum_to_n_b(_)
sum_to_n_b(n) == IF n <= 1 THEN n ELSE n + sum_to_n_b(n - 1)

\* sum_to_n_c that halves n + 1 first, in integers.
sum_to_n_c_HalvesFirst(n) == n * ((n + 1) \div 2)

\* n * (n + 1) is even, so the quotient is an integer.
sum_to_n_c(n) == (n * (n + 1)) \div 2

SumInit ==
  /\ db = EmptyStore
  /\ now = 0
  /\ last = NoRequest
  /\ inflight = NoCalls
  /\ frame \in {Frame(n) : n \in (-MaxNegN)..MaxN}

CallA ==
  /\ frame.a = <<>>
  /\ frame' = [frame EXCEPT !.a = <<sum_to_n_a(frame.n)>>]
  /\ UNCHANGED <<db, now, last, inflight>>

CallB ==
  /\ frame.b = <<>>
  /\ frame' = [frame EXCEPT !.b = <<sum_to_n_b(frame.n)>>]
  /\ UNCHANGED <<db, now, last, inflight>>

CallC ==
  /\ frame.c = <<>>
  /\ frame' = [frame EXCEPT !.c = <<sum_to_n_c(frame.n)>>]
  /\ UNCHANGED <<db, now, last, inflight>>

SumNext == CallA \/ CallB \/ CallC

SumSpec == SumInit /\ [][SumNext]_vars

(***************************************************************************)
(* Properties.  last records the request just answered: last.before is     *)
(* the store it found, db the store it left.                               *)
(***************************************************************************)
PathID == ParseInt(last.id)

AuthorPost == last.handler = "POST /api/author"
AuthorPut == last.handler = "PUT /api/author/:id"
AuthorDelete == last.handler = "DELETE /api/author/:id"
AuthorGetId == last.handler = "GET /api/author/:id"
ProductPost == last.handler = "POST /api/product"
ProductPut == last.handler = "PUT /api/product/:id"
ProductDelete == last.handler = "DELETE /api/product/:id"
ProductGetId == last.handler = "GET /api/product/:id"

\* The path names an integer ID with (without) a row in the table the
\* request found.
Stored(table) == IsInteger(PathID) /\ HasRow(table, PathID.n)
Missing(table) == IsInteger(PathID) /\ ~HasRow(table, PathID.n)

\* The body's authorID is an integer that is the ID of no Author.
AuthorIDMissing ==
  /\ IsInteger(last.body.authorID)
  /\ ~HasRow(last.before.author, last.body.authorID.n)

\* C1: every stored Product's authorID is the ID of a stored Author.
C1_AuthorIDReferencesAuthor ==
  \A p \in db.product : HasRow(db.author, p.authorID)

\* C1 witness: a Product is stored and the delete of its Author was refused.
C1_Witness ==
  /\ AuthorDelete
  /\ last.err = ReferentialIntegrityError
  /\ \E p \in db.product : p.authorID = PathID.n

\* C2 as stated: a Product create or update whose authorID is the ID of no
\* Author fails with ReferentialIntegrityError and leaves the store as it
\* was.
C2_MissingAuthorIsReferentialError ==
  ((ProductPost \/ (ProductPut /\ IsInteger(PathID)))
     /\ last.called /\ AuthorIDMissing)
  => (last.err = ReferentialIntegrityError /\ db = last.before)

\* C2 amended: a Product create, or an update of a stored Product, whose
\* authorID is the ID of no Author fails with ReferentialIntegrityError and
\* leaves the store as it was.
C2_MissingAuthorOfStoredProduct ==
  ((ProductPost \/ (ProductPut /\ Stored(last.before.product)))
     /\ last.called /\ AuthorIDMissing)
  => (last.err = ReferentialIntegrityError /\ db = last.before)

\* C2 witness: an update of a stored Product named a missing Author.
C2_Witness ==
  /\ ProductPut /\ Stored(last.before.product)
  /\ last.called /\ AuthorIDMissing
  /\ last.err = ReferentialIntegrityError

\* C3: the delete of an Author that a Product references fails with
\* ReferentialIntegrityError, and the Author and the Products stay as they
\* were.
C3_DeleteReferencedAuthorRefused ==
  (AuthorDelete /\ IsInteger(PathID)
     /\ \E p \in last.before.product : p.authorID = PathID.n)
  => (last.err = ReferentialIntegrityError /\ db = last.before)

\* C3 witness: such a delete was answered, the Author and its two Products
\* still stored.
C3_Witness ==
  /\ AuthorDelete /\ last.called
  /\ Cardinality({p \in last.before.product : p.authorID = PathID.n}) = 2
  /\ Cardinality({p \in db.product : p.authorID = PathID.n}) = 2
  /\ HasRow(db.author, PathID.n)

\* The successful Product update last answered: the row before and after.
ProductUpdated ==
  ProductPut /\ last.called /\ last.err = NoError
OldProduct == RowOf(last.before.product, PathID.n)
NewProduct == RowOf(db.product, PathID.n)

\* C4: a successful Product update sets each writable field the body gives
\* to the given value and leaves each writable field the body does not give
\* at its stored value.
C4_UpdateAppliesGivenFieldsOnly ==
  ProductUpdated =>
    /\ HasRow(last.before.product, PathID.n) /\ HasRow(db.product, PathID.n)
    /\ IF Given(last.body.title)
       THEN NewProduct.title = last.body.title.s
       ELSE NewProduct.title = OldProduct.title
    /\ IF Given(last.body.isFiction)
       THEN NewProduct.isFiction = (last.body.isFiction = Bool(TRUE))
       ELSE NewProduct.isFiction = OldProduct.isFiction
    /\ IF Given(last.body.datePublish)
       THEN last.body.datePublish = Str(DateStrings[NewProduct.datePublish])
       ELSE NewProduct.datePublish = OldProduct.datePublish
    /\ IF Given(last.body.authorID)
       THEN NewProduct.authorID = last.body.authorID.n
       ELSE NewProduct.authorID = OldProduct.authorID

\* C4 witness: an update gave the authorID alone and changed it, the stored
\* title, isFiction and datePublish being those of an earlier update.
C4_Witness ==
  /\ ProductUpdated
  /\ Given(last.body.authorID) /\ ~Given(last.body.title)
  /\ ~Given(last.body.isFiction) /\ ~Given(last.body.datePublish)
  /\ NewProduct.authorID # OldProduct.authorID
  /\ NewProduct.title = "Novel" /\ ~NewProduct.isFiction
  /\ NewProduct.datePublish = 2

\* The rows of a table are those it had, the row id apart from its
\* updatedAt and every other row in full.
SameExceptUpdatedAt(before, after, id) ==
  /\ Cardinality(after) = Cardinality(before)
  /\ \A r \in before :
       /\ HasRow(after, r.ID)
       /\ IF r.ID = id
          THEN [RowOf(after, r.ID) EXCEPT !.updatedAt = r.updatedAt] = r
          ELSE RowOf(after, r.ID) = r

EmptyAuthorBody == last.body = AuthorBody(Undefined, Undefined)
EmptyProductBody ==
  last.body = ProductBody(Undefined, Undefined, Undefined, Undefined)

\* C5: an update of a stored record with an empty body leaves every field of
\* the record but updatedAt, and every other record, as it was.
C5_EmptyUpdateKeepsFields ==
  /\ (AuthorPut /\ Stored(last.before.author) /\ EmptyAuthorBody)
     => /\ last.called /\ last.err = NoError
        /\ SameExceptUpdatedAt(last.before.author, db.author, PathID.n)
        /\ db = [last.before EXCEPT !.author = db.author]
  /\ (ProductPut /\ Stored(last.before.product) /\ EmptyProductBody)
     => /\ last.called /\ last.err = NoError
        /\ SameExceptUpdatedAt(last.before.product, db.product, PathID.n)
        /\ db = [last.before EXCEPT !.product = db.product]

\* C5 witness: an empty update of a stored Author moved its updatedAt, a
\* second Author being stored.
C5_Witness ==
  /\ AuthorPut /\ Stored(last.before.author) /\ EmptyAuthorBody
  /\ RowOf(db.author, PathID.n).updatedAt
       # RowOf(last.before.author, PathID.n).updatedAt
  /\ Cardinality(db.author) = 2

\* C6: reading an ID that no record has returns null without an error, and
\* GET /:id answers 404.
C6_FindMissingIsNull404 ==
  /\ (AuthorGetId /\ Missing(last.before.author))
     => (last.err = NoError /\ last.rows = <<>> /\ last.status = 404)
  /\ (ProductGetId /\ Missing(last.before.product))
     => (last.err = NoError /\ last.rows = <<>> /\ last.status = 404)

\* C6 witness: GET /:id of a deleted Author, another one stored, was answered.
C6_Witness ==
  /\ AuthorGetId /\ Missing(last.before.author)
  /\ PathID.n <= last.before.authorSeq
  /\ last.before.author # {}
  /\ last.status = 404

\* Update data of the declared types: each field of its type or undefined.
TypedAuthorData ==
  /\ last.body.firstName.t \in {"string", "undefined"}
  /\ last.body.lastName.t \in {"string", "undefined"}
TypedProductData ==
  /\ last.body.title.t \in {"string", "undefined"}
  /\ last.body.isFiction.t \in {"boolean", "undefined"}
  /\ last.body.datePublish.t \in {"string", "date", "undefined"}
  /\ last.body.authorID.t \in {"number", "undefined"}

\* C7: update and delete of an ID that no record has fail with
\* NotFoundError and leave the store as it was.
C7_MissingIDIsNotFound ==
  /\ (((AuthorPut /\ TypedAuthorData) \/ AuthorDelete)
        /\ last.called /\ Missing(last.before.author))
     => (last.err = NotFoundError /\ db = last.before)
  /\ (((ProductPut /\ TypedProductData) \/ ProductDelete)
        /\ last.called /\ Missing(last.before.product))
     => (last.err = NotFoundError /\ db = last.before)

\* C7 witness: the delete of a Product already deleted was answered.
C7_Witness ==
  /\ ProductDelete /\ last.called /\ Missing(last.before.product)
  /\ PathID.n <= last.before.productSeq
  /\ last.err = NotFoundError

\* C8: a PUT /:id or DELETE /:id that fails with NotFoundError is answered
\* with 404.
C8_NotFoundAnswered404 ==
  ((AuthorPut \/ AuthorDelete \/ ProductPut \/ ProductDelete)
     /\ last.err = NotFoundError)
  => last.status = 404

\* C9: a request that fails with ReferentialIntegrityError is answered with
\* 400.
C9_ReferentialErrorAnswered400 ==
  (last.err = ReferentialIntegrityError) => last.status = 400

\* C10: a request to one of the four body-validated routes whose body fails
\* the route's validation is answered with 400.
C10_InvalidBodyAnswered400 ==
  /\ ((AuthorPost \/ AuthorPut) /\ AuthorErrors(last.body) # {})
     => last.status = 400
  /\ (ProductPost /\ ProductPostErrors(last.body) # {}) => last.status = 400
  /\ (ProductPut /\ ProductPutErrors(last.body) # {}) => last.status = 400

AuthorGet == last.handler = "GET /api/author"
ProductGet == last.handler = "GET /api/product"

\* The request in hand was answered from a gateway call that succeeded.
Succeeded == last.called /\ last.err = NoError

\* C11: findById of the ID a create returned, asked right after the create,
\* returns the record the create returned, for Author and for Product.
C11_FindAfterCreateReturnsCreated ==
  /\ (AuthorPost /\ Succeeded)
     => getAuthorById(db, Num(last.rows[1].ID)).rows = last.rows
  /\ (ProductPost /\ Succeeded)
     => findById(db, Num(last.rows[1].ID)).rows = last.rows

\* C11 witness: a second Author has just been created.
C11_Witness ==
  /\ AuthorPost /\ Succeeded
  /\ last.rows[1].ID = 2 /\ Cardinality(db.author) = 2

ProductReadFields ==
  {"ID", "title", "isFiction", "datePublish", "author", "createdAt",
   "updatedAt"}
NestedAuthorFields ==
  {"ID", "firstName", "lastName", "createdAt", "updatedAt"}

\* C12: every Product record that findAll, findById, create and update
\* return has the fields of ProductRead and a nested author of five fields,
\* and none has the raw authorID.
C12_ProductReadShape ==
  ((ProductGet \/ ProductGetId \/ ProductPost \/ ProductPut) /\ Succeeded)
  => \A i \in 1..Len(last.rows) :
       /\ DOMAIN last.rows[i] = ProductReadFields
       /\ DOMAIN last.rows[i].author = NestedAuthorFields

\* C12 witness: findAll returned two Products.
C12_Witness ==
  ProductGet /\ Succeeded /\ Len(last.rows) = 2

IDs(table) == {r.ID : r \in table}

UniqueIDs(table) == \A r1, r2 \in table : r1.ID = r2.ID => r1 = r2

\* C13: no two stored records of an entity share an ID, and the ID of a
\* record just created is the ID of no record stored before the create,
\* whatever ID the body carried.
C13_StoreAssignedIDsUnique ==
  /\ UniqueIDs(db.author) /\ UniqueIDs(db.product)
  /\ (AuthorPost /\ Succeeded)
     => /\ last.rows[1].ID \notin IDs(last.before.author)
        /\ IDs(db.author) = IDs(last.before.author) \cup {last.rows[1].ID}
  /\ (ProductPost /\ Succeeded)
     => /\ last.rows[1].ID \notin IDs(last.before.product)
        /\ IDs(db.product) = IDs(last.before.product) \cup {last.rows[1].ID}

\* The body carries an ID key.
BodyHasID == "ID" \in DOMAIN last.body

\* C13 witness: an Author was created from a body that carried the ID of a
\* stored Author, and got another ID.
C13_Witness ==
  /\ AuthorPost /\ Succeeded /\ BodyHasID
  /\ last.body.ID.n \in IDs(last.before.author)
  /\ last.rows[1].ID # last.body.ID.n

\* C14: a successful update leaves the IDs of the stored records as they
\* were: the record is still stored under the ID of the path, with the
\* createdAt it had, and is returned under that ID.
C14_UpdateKeepsID ==
  /\ (AuthorPut /\ Succeeded)
     => /\ IDs(db.author) = IDs(last.before.author)
        /\ last.rows[1].ID = PathID.n
        /\ RowOf(db.author, PathID.n).createdAt
             = RowOf(last.before.author, PathID.n).createdAt
  /\ (ProductPut /\ Succeeded)
     => /\ IDs(db.product) = IDs(last.before.product)
        /\ last.rows[1].ID = PathID.n
        /\ RowOf(db.product, PathID.n).createdAt
             = RowOf(last.before.product, PathID.n).createdAt

\* C14 witness: an Author was updated from a body that carried another ID.
C14_Witness ==
  /\ AuthorPut /\ Succeeded /\ BodyHasID
  /\ last.body.ID.n # PathID.n

\* The body gives datePublish as a string that is a calendar date.
DateStringGiven ==
  /\ last.body.datePublish.t = "string"
  /\ \E k \in 1..Len(DateStrings) : DateStrings[k] = last.body.datePublish.s

\* The stored Product id holds the date the body's string names, and a read
\* of it returns that date.
DateStoredAndRead(id) ==
  /\ Str(DateStrings[RowOf(db.product, id).datePublish])
       = last.body.datePublish
  /\ findById(db, Num(id)).rows[1].datePublish
       = RowOf(db.product, id).datePublish

\* C15: a Product create or update whose datePublish is a parseable date
\* string hands the store a date, not the string (the store does not reject
\* it), and the Product then stores and reads back the parsed date.
C15_DateStringStoredAsDate ==
  /\ (ProductPost /\ last.called /\ DateStringGiven
        /\ IsInteger(last.body.authorID))
     => last.err # ValidationError
  /\ (ProductPut /\ last.called /\ DateStringGiven
        /\ IsInteger(PathID) /\ TypedProductData)
     => last.err # ValidationError
  /\ (ProductPost /\ Succeeded /\ DateStringGiven)
     => DateStoredAndRead(last.rows[1].ID)
  /\ (ProductPut /\ Succeeded /\ DateStringGiven)
     => DateStoredAndRead(PathID.n)

\* C15 witness: a Product was created from a body with a date string.
C15_Witness ==
  /\ ProductPost /\ Succeeded /\ DateStringGiven
  /\ HasRow(db.product, last.rows[1].ID)

\* C16: after a successful Author update both stored names are the names
\* the body gave.
C16_UpdateReplacesBothNames ==
  (AuthorPut /\ Succeeded)
  => /\ last.body.firstName = Str(RowOf(db.author, PathID.n).firstName)
     /\ last.body.lastName = Str(RowOf(db.author, PathID.n).lastName)

\* The ID was handed out and has no row: its record was deleted.
DeletedIn(table, seq, id) == id <= seq /\ id \notin IDs(table)

\* No entry of a findAll result has the ID.
Omits(rows, id) == \A i \in 1..Len(rows) : rows[i].ID # id

\* C17: a record whose delete succeeded is gone at once (findById returns
\* null, findAll omits it), and a deleted record stays deleted whatever
\* request follows.
C17_DeletionPermanent ==
  /\ []((AuthorDelete /\ Succeeded)
         => /\ PathID.n \notin IDs(db.author)
            /\ getAuthorById(db, PathID).rows = <<>>
            /\ Omits(getAuthors(db).rows, PathID.n))
  /\ []((ProductDelete /\ Succeeded)
         => /\ PathID.n \notin IDs(db.product)
            /\ findById(db, PathID).rows = <<>>
            /\ Omits(findAll(db).rows, PathID.n))
  /\ [][\A id \in 1..MaxID :
          /\ DeletedIn(db.author, db.authorSeq, id)
             => DeletedIn(db'.author, db'.authorSeq, id)
          /\ DeletedIn(db.product, db.productSeq, id)
             => DeletedIn(db'.product, db'.productSeq, id)]_vars

\* C17 witness: an update of a deleted Product was answered, and the Product
\* is still gone.
C17_Witness ==
  /\ ProductPut /\ last.called /\ IsInteger(PathID)
  /\ DeletedIn(last.before.product, last.before.productSeq, PathID.n)
  /\ DeletedIn(db.product, db.productSeq, PathID.n)
  /\ findById(db, PathID).rows = <<>>

\* Some Product the request found references the Author the path names.
Referenced == \E p \in last.before.product : p.authorID = PathID.n

\* C18: the delete of a stored Author succeeds, and removes the Author,
\* exactly when no Product references it at the time of the call; it fails
\* with ReferentialIntegrityError, the store unchanged, exactly when one
\* does.  So the delete refused after the Product's create succeeds after
\* the Product's delete.
C18_AuthorDeleteIffUnreferenced ==
  (AuthorDelete /\ Stored(last.before.author))
  => /\ last.called
     /\ (last.err = NoError) <=> ~Referenced
     /\ (last.err = ReferentialIntegrityError) <=> Referenced
     /\ Referenced => db = last.before
     /\ ~Referenced
        => /\ ~HasRow(db.author, PathID.n)
           /\ db.product = last.before.product

\* C18 witness: the end of the scenario; a Product was created and deleted,
\* and the delete of the only Author created succeeded.
C18_Witness ==
  /\ AuthorDelete /\ Succeeded
  /\ Stored(last.before.author)
  /\ last.before.authorSeq = 1
  /\ last.before.productSeq >= 1
  /\ last.before.product = {}
  /\ db.author = {}

\* The set of the entries of a sequence.
Range(rows) == {rows[i] : i \in 1..Len(rows)}

\* C19: GET / is answered 200 with the list findAll returns, which has one
\* entry per stored record and no other: the empty list for a store that
\* holds no record of the entity.
C19_FindAllReturnsStored ==
  /\ findAll(EmptyStore) = Ok(<<>>, EmptyStore)
  /\ getAuthors(EmptyStore) = Ok(<<>>, EmptyStore)
  /\ AuthorGet
     => /\ last.status = 200 /\ last.kind = "list" /\ last.err = NoError
        /\ Len(last.rows) = Cardinality(last.before.author)
        /\ Range(last.rows) = {AuthorSelect(r) : r \in last.before.author}
        /\ db = last.before
  /\ ProductGet
     => /\ last.status = 200 /\ last.kind = "list" /\ last.err = NoError
        /\ Len(last.rows) = Cardinality(last.before.product)
        /\ Range(last.rows)
             = {ProductSelect(last.before, r) : r \in last.before.product}
        /\ db = last.before

\* C19 witness: GET /api/author on a store that holds no Author, though it
\* held one before, was answered 200 with the empty list.
C19_Witness ==
  /\ AuthorGet /\ last.status = 200
  /\ last.before.author = {} /\ last.before.authorSeq >= 1
  /\ last.rows = <<>>

\* The request in hand has an :id path parameter.
HasPathParam ==
  \/ AuthorGetId \/ AuthorPut \/ AuthorDelete
  \/ ProductGetId \/ ProductPut \/ ProductDelete

\* C20: a request whose path id does not parse as an integer is answered
\* not-found or rejected, with no gateway call.
C20_NonIntegerIDNeverReachesGateway ==
  (HasPathParam /\ ~IsInteger(PathID))
  => (~last.called /\ last.status \in {400, 404})

\* The response in hand is a 2xx whose JSON body is of the kind and carries
\* the rows given.
Answers2xx(kind, rows) ==
  /\ last.status \in 200..299
  /\ last.kind = kind
  /\ last.rows = rows

\* C21: a request whose operation succeeded is answered 2xx with the
\* operation's result as its body: the record list for GET /, the record
\* found for GET /:id, the created record for POST and the updated record
\* for PUT.
C21_SuccessAnswered2xxWithResult ==
  /\ (AuthorGet /\ Succeeded)
     => Answers2xx("list", getAuthors(last.before).rows)
  /\ (ProductGet /\ Succeeded)
     => Answers2xx("list", GetProductsUsecase(last.before).rows)
  /\ (AuthorGetId /\ Succeeded /\ Stored(last.before.author))
     => Answers2xx("record", getAuthorById(last.before, PathID).rows)
  /\ (ProductGetId /\ Succeeded /\ Stored(last.before.product))
     => Answers2xx("record", GetProductByIdUsecase(last.before, PathID).rows)
  /\ (AuthorPost /\ Succeeded)
     => /\ Answers2xx("record", createAuthor(last.before, last.body, now).rows)
        /\ Len(last.rows) = 1
  /\ (ProductPost /\ Succeeded)
     => /\ Answers2xx("record",
                      CreateProductUsecase(last.before, last.body, now).rows)
        /\ Len(last.rows) = 1
  /\ (AuthorPut /\ Succeeded)
     => /\ Answers2xx("record",
                      updateAuthorById(last.before, PathID, last.body,
                                       now).rows)
        /\ Len(last.rows) = 1
  /\ (ProductPut /\ Succeeded)
     => /\ Answers2xx("record",
                      UpdateProductByIdUsecase(last.before, PathID, last.body,
                                               now).rows)
        /\ Len(last.rows) = 1
  /\ ((AuthorDelete \/ ProductDelete) /\ Succeeded)
     => last.status \in 200..299

\* C21 witness: a POST /api/author was answered 201 with the Author it
\* created, now stored.
C21_Witness ==
  /\ AuthorPost /\ Succeeded
  /\ last.status = 201
  /\ Len(last.rows) = 1
  /\ \E r \in db.author : AuthorSelect(r) = last.rows[1]

RECURSIVE SumUpTo(_)
\* 1 + 2 + ... + n, the empty sum for n = 0
SumUpTo(n) == IF n = 0 THEN 0 ELSE SumUpTo(n - 1) + n

\* The three sum functions have returned for frame.n.
AllReturned == frame.a # <<>> /\ frame.b # <<>> /\ frame.c # <<>>

\* C22: for n >= 0 the three sum functions return the same value, and it is
\* 1 + 2 + ... + n.
C22_SumsAgreeForNonNegative ==
  frame.n >= 0
  => /\ frame.a # <<>> => frame.a[1] = SumUpTo(frame.n)
     /\ frame.b # <<>> => frame.b[1] = SumUpTo(frame.n)
     /\ frame.c # <<>> => frame.c[1] = SumUpTo(frame.n)
     /\ AllReturned => (frame.a = frame.b /\ frame.b = frame.c)

\* C22 witness: the three functions returned 1 + 2 + 3 + 4 for n = 4.
C22_Witness ==
  /\ frame.n = 4
  /\ AllReturned
  /\ frame.a[1] = 10 /\ frame.b[1] = 10 /\ frame.c[1] = 10

\* C30: for n < 0 the three sum functions do not share one result:
\* sum_to_n_a returns 0, sum_to_n_b returns n and sum_to_n_c returns
\* n * (n + 1) / 2, so sum_to_n_b differs from sum_to_n_a for every negative
\* n and sum_to_n_c differs from it for every n <= -2.
C30_SumsDifferForNegative ==
  frame.n < 0
  => /\ frame.a # <<>> => frame.a[1] = 0
     /\ frame.b # <<>> => frame.b[1] = frame.n
     /\ frame.c # <<>> => 2 * frame.c[1] = frame.n * (frame.n + 1)
     /\ (frame.a # <<>> /\ frame.b # <<>>) => frame.b # frame.a
     /\ (frame.a # <<>> /\ frame.c # <<>> /\ frame.n <= -2)
        => frame.c # frame.a
     /\ (frame.a # <<>> /\ frame.c # <<>> /\ frame.n = -1)
        => frame.c = frame.a

\* C30 witness: for n = -3 the three functions returned 0, -3 and 3.
C30_Witness ==
  /\ frame.n = -3
  /\ AllReturned
  /\ frame.a[1] = 0 /\ frame.b[1] = -3 /\ frame.c[1] = 3

\* The store operation of the request in hand, applied to the store the
\* request found: the one operation its service function or gateway method
\* is to make.
StoreOp ==
  CASE AuthorGet -> dbAuthorFindMany(last.before)
    [] AuthorGetId -> dbAuthorFindUnique(last.before, PathID)
    [] AuthorPost ->
         dbAuthorCreate(last.before,
                        [firstName |-> last.body.firstName,
                         lastName |-> last.body.lastName], now)
    [] AuthorPut ->
         dbAuthorUpdate(last.before, PathID,
                        [firstName |-> last.body.firstName,
                         lastName |-> last.body.lastName], now)
    [] AuthorDelete -> dbAuthorDelete(last.before, PathID)
    [] ProductGet -> dbProductFindMany(last.before)
    [] ProductGetId -> dbProductFindUnique(last.before, PathID)
    [] ProductPost ->
         dbProductCreate(last.before,
                         [title |-> last.body.title,
                          isFiction |-> last.body.isFiction,
                          datePublish |-> NewDate(last.body.datePublish),
                          authorID |-> last.body.authorID], now)
    [] ProductPut ->
         dbProductUpdate(last.before, PathID, updateData(last.body), now)
    [] ProductDelete -> dbProductDelete(last.before, PathID)

\* C23: a request performs at most one store operation: none when it is
\* rejected, one when its gateway is called.  When that operation fails the
\* request fails with no second call and the store unchanged; when it
\* succeeds the store is what that one operation left.
C23_OneStoreCallNoRetry ==
  /\ last.calls <= 1
  /\ last.called => last.calls = 1
  /\ (last # NoRequest /\ ~last.called) => (last.calls = 0 /\ db = last.before)
  /\ (last.called /\ last.err # NoError)
     => /\ last.status >= 400
        /\ last.rows = <<>>
        /\ db = last.before
  /\ last.called => db = StoreOp.db

\* C23 witness: the one store call of a DELETE /api/author/:id failed with
\* NotFoundError, the Author having been deleted before, and the request
\* failed.
C23_Witness ==
  /\ AuthorDelete /\ last.calls = 1
  /\ last.err = NotFoundError
  /\ DeletedIn(last.before.author, last.before.authorSeq, PathID.n)
  /\ last.status >= 400

\* The gateway call of the request in hand, applied to the store the request
\* found: the author service function or the ProductQueryBuilder method.
GatewayCall ==
  CASE AuthorGet -> getAuthors(last.before)
    [] AuthorGetId -> getAuthorById(last.before, PathID)
    [] AuthorPost -> createAuthor(last.before, last.body, now)
    [] AuthorPut -> updateAuthorById(last.before, PathID, last.body, now)
    [] AuthorDelete -> deleteAuthorById(last.before, PathID)
    [] ProductGet -> findAll(last.before)
    [] ProductGetId -> findById(last.before, PathID)
    [] ProductPost -> create(last.before, last.body, now)
    [] ProductPut -> update(last.before, PathID, last.body, now)
    [] ProductDelete -> delete(last.before, PathID)

\* The use-case wrapper of the Product request in hand, applied to the store
\* the request found.
WrapperCall ==
  CASE ProductGet -> GetProductsUsecase(last.before)
    [] ProductGetId -> GetProductByIdUsecase(last.before, PathID)
    [] ProductPost -> CreateProductUsecase(last.before, last.body, now)
    [] ProductPut ->
         UpdateProductByIdUsecase(last.before, PathID, last.body, now)
    [] ProductDelete -> DeleteProductByIdUsecase(last.before, PathID)

\* The request in hand is to one of the five Product routes.
ProductRequest ==
  ProductGet \/ ProductGetId \/ ProductPost \/ ProductPut \/ ProductDelete

\* C24: when the store operation behind a gateway call fails, the gateway
\* call fails with that failure, the use-case wrapper around it fails with
\* it too, and the handler catches that same failure: none of them returns
\* a value or another error in its place.
C24_StoreFailureSurfacesUnchanged ==
  last.called
  => /\ GatewayCall.err = StoreOp.err
     /\ ProductRequest => WrapperCall.err = StoreOp.err
     /\ last.err = StoreOp.err
     /\ StoreOp.err # NoError
        => /\ GatewayCall.rows = <<>>
           /\ ProductRequest => WrapperCall.rows = <<>>
           /\ last.rows = <<>>

\* C24 witness: the update of a deleted Product failed in the store with
\* NotFoundError, and the handler caught NotFoundError.
C24_Witness ==
  /\ ProductPut /\ last.called
  /\ DeletedIn(last.before.product, last.before.productSeq, PathID.n)
  /\ StoreOp.err = NotFoundError
  /\ last.err = NotFoundError

\* C25 as stated: each of the five Product use-case wrappers returns exactly
\* what its gateway method returns for the same arguments, and leaves the
\* same store.
C25_WrapperReturnsGatewayResult ==
  (ProductRequest /\ last.called) => WrapperCall = GatewayCall

\* C25, amended: the wrappers of get all, get by id, create and update
\* return exactly what the gateway method returns and leave the same store;
\* the delete wrapper makes the same gateway call, fails when it fails and
\* leaves the same store, but returns nothing, where the gateway method
\* returns the record the store deleted.
C25_WrapperMatchesGatewayButDeleteIsVoid ==
  (ProductRequest /\ last.called)
  => /\ ~ProductDelete => WrapperCall = GatewayCall
     /\ ProductDelete
        => /\ WrapperCall = [GatewayCall EXCEPT !.rows = <<>>]
           /\ GatewayCall.err = NoError
              => GatewayCall.rows = <<RowOf(last.before.product, PathID.n)>>
     /\ db = WrapperCall.db
     /\ db = GatewayCall.db

\* C25 witness: DELETE /api/product/:id of a stored Product; the wrapper
\* returned nothing and the gateway method returns the deleted record.
C25_Witness ==
  /\ ProductDelete /\ Succeeded
  /\ Stored(last.before.product)
  /\ WrapperCall.rows = <<>>
  /\ Len(GatewayCall.rows) = 1

\* The request in hand was answered 400 with the validation errors.
Rejected400 == last.status = 400 /\ last.kind = "errors"

\* C27: a request answered 400 because its body failed validation made no
\* gateway call and no store operation, and left the store as it found it.
C27_RejectedBodyLeavesStore ==
  (last.status = 400)
  => /\ Rejected400
     /\ ~last.called
     /\ last.calls = 0
     /\ db = last.before

\* C27 witness: a PUT /api/product/:id that names a stored Product was
\* answered 400 for its body, the Product as it was.
C27_Witness ==
  /\ ProductPut /\ Rejected400
  /\ ProductPutErrors(last.body) # {}
  /\ Stored(last.before.product)
  /\ RowOf(db.product, PathID.n) = RowOf(last.before.product, PathID.n)

\* The keys of data that update may write.
WritableKeys == {"title", "isFiction", "datePublish", "authorID"}

\* The writable keys data gives: those whose value is not undefined.
GivenKeys(data) == {k \in WritableKeys : data[k] # Undefined}

\* The column value the store keeps for the value v written to key k.
Column(k, v) ==
  CASE k = "title" -> v.s
    [] k = "isFiction" -> (v.n = 1)
    [] k = "datePublish" -> NewDate(v).n
    [] k = "authorID" -> v.n

\* C26: update forwards to the store exactly the writable keys data gives
\* (a value that is not undefined), a null included, datePublish through
\* new Date, and no other key of data; so a successful update writes the
\* given keys and leaves the other columns, ID and createdAt among them.
C26_UpdateForwardsGivenKeysOnly ==
  \A i \in 1..Len(inflight) :
    inflight[i].done
    => LET c == inflight[i]
           forwarded == updateData(c.data)
           old == RowOf(c.before.product, c.ID.n)
           new == RowOf(c.after.product, c.ID.n)
       IN /\ DOMAIN forwarded = WritableKeys
          /\ \A k \in WritableKeys :
               (forwarded[k] # Undefined) <=> (k \in GivenKeys(c.data))
          /\ \A k \in GivenKeys(c.data) \ {"datePublish"} :
               forwarded[k] = c.data[k]
          /\ "datePublish" \in GivenKeys(c.data)
             => forwarded.datePublish = NewDate(c.data.datePublish)
          /\ c.data.datePublish = Null => forwarded.datePublish = DateOf(0)
          /\ c.err = NoError
             => /\ \A k \in GivenKeys(c.data) : new[k] = Column(k, c.data[k])
                /\ \A k \in WritableKeys \ GivenKeys(c.data) : new[k] = old[k]
                /\ new.ID = old.ID
                /\ new.createdAt = old.createdAt

\* C26 witness: an update whose datePublish is null succeeded and wrote
\* new Date(null), the epoch; and an update whose data carries ID and
\* createdAt succeeded and wrote its title only.
C26_Witness ==
  /\ inflight # NoCalls
  /\ inflight[1].done /\ inflight[1].err = NoError
  /\ inflight[1].data.datePublish = Null
  /\ RowOf(db.product, 1).datePublish = 0
  /\ inflight[2].done /\ inflight[2].err = NoError
  /\ "ID" \in DOMAIN inflight[2].data
  /\ RowOf(db.product, 1).ID = 1
  /\ RowOf(db.product, 1).title = "Novel"

\* The row of Product 1 after data was written over row, at time t.
Written(row, data, t) ==
  [k \in DOMAIN row |->
     IF k \in GivenKeys(data) THEN Column(k, data[k])
     ELSE IF k = "updatedAt" THEN t ELSE row[k]]

\* Both update calls have returned, both succeeded, and their data give
\* disjoint sets of writable keys.
DisjointUpdatesDone ==
  /\ inflight # NoCalls
  /\ \A i \in 1..2 : inflight[i].done /\ inflight[i].err = NoError
  /\ GivenKeys(inflight[1].data) \cap GivenKeys(inflight[2].data) = {}

\* C29: two overlapping successful updates of one Product whose data give
\* disjoint sets of writable keys commute: whichever store operation ran
\* first, the Product ends with the values of both, no key one update wrote
\* overwritten by the other, and the store is the one either order leaves.
C29_DisjointUpdatesCommute ==
  DisjointUpdatesDone
  => LET d1 == inflight[1].data
         d2 == inflight[2].data
         final == RowOf(db.product, 1)
         seed == RowOf(SeedStore.product, 1)
     IN /\ \A k \in GivenKeys(d1) : final[k] = Column(k, d1[k])
        /\ \A k \in GivenKeys(d2) : final[k] = Column(k, d2[k])
        /\ \A k \in WritableKeys \ (GivenKeys(d1) \cup GivenKeys(d2)) :
             final[k] = seed[k]
        /\ \A k \in DOMAIN final :
             final[k] = Written(Written(seed, d1, now), d2, now)[k]
        /\ db = update(update(SeedStore, Num(1), d1, now).db, Num(1), d2,
                       now).db
        /\ db = update(update(SeedStore, Num(1), d2, now).db, Num(1), d1,
                       now).db

\* C29 witness: the second caller's update ran first and wrote the
\* authorID, the first caller's ran after it and wrote the title, and the
\* Product holds both.
C29_Witness ==
  /\ DisjointUpdatesDone
  /\ GivenKeys(inflight[1].data) = {"title"}
  /\ GivenKeys(inflight[2].data) = {"authorID"}
  /\ inflight[2].before = SeedStore
  /\ inflight[1].before = inflight[2].after
  /\ RowOf(db.product, 1).title = "Novel"
  /\ RowOf(db.product, 1).authorID = 2

\* A request was received and no response has been sent for it yet.
Pending == inflight # NoCalls /\ inflight[1].sent = 0

\* Exactly one response has been sent for the request in hand.
Responded == inflight # NoCalls /\ inflight[1].sent = 1

\* C28: a request to any of the ten handlers gets exactly one response on
\* every path: never two, none is forgotten with no response, and a
\* request that was received is answered eventually.
C28_ExactlyOneResponse ==
  /\ [](inflight # NoCalls => inflight[1].sent <= 1)
  /\ [][(inflight # NoCalls /\ inflight' = NoCalls)
          => inflight[1].sent = 1]_vars
  /\ [](Responded
          => /\ last.handler = inflight[1].handler
             /\ last.status \in {200, 201, 400, 404, 500})
  /\ Pending ~> Responded

\* C28 witness: the store call of a received DELETE /api/author/:id failed,
\* the Author being referenced, and one response, a 500, has been sent.
C28_Witness ==
  /\ Responded
  /\ AuthorDelete
  /\ last.err = ReferentialIntegrityError
  /\ last.status = 500
  /\ last.sent = 1

====
